---- MODULE Spec2Model ----
(***************************************************************************)
(* A model of rl_utils/plotting/auto_table.py: plot_table renders a        *)
(* dataframe as a LaTeX table.  The dataframe is a sequence of records     *)
(* with the four columns row / col / val / err (row_key, col_key,          *)
(* cell_key, err_key); the keyword arguments are the record cfg.  Python   *)
(* floats are modelled by exact integers and rationals, strings by TLA+    *)
(* strings, None by the string "None", callbacks by the name of one of a   *)
(* few concrete strategies.                                                *)
(***************************************************************************)
EXTENDS Integers, Sequences, FiniteSets, TLC

\* How many times plot_table is called on the same dataframe object.
MaxCalls == 2
\* The largest number of records of a dataframe.
MaxRecs == 3
\* The largest number of entries of row_order.
MaxRows == 3

VARIABLES
    df,       \* the caller's dataframe object
    cfg,      \* the keyword arguments of the calls
    loc,      \* the last call's locals when it ended: rows, all_s, row_strs
              \* (the row_str behind each body line), row_lines, seps (what
              \* lines 258-268 appended after each line), col_header_s,
              \* toprule, ret_s, raised (the exception, "" if it returned),
              \* stdout (what it printed), written (what it wrote to write_to)
    history   \* per call so far: the dataframe it was given and its outcome

vars == <<df, cfg, loc, history>>

None == "None"

(***************************************************************************)
(* Python values of a dataframe field: a number, a string, or NaN.         *)
(***************************************************************************)
Num(v) == [t |-> "num", v |-> v, s |-> ""]
Str(s) == [t |-> "str", v |-> 0, s |-> s]
NaN == [t |-> "nan", v |-> 0, s |-> ""]

\* A number computed from the data: n / d, or sqrt(n / d) when root; d = 0 is NaN.
Rat(n, d) == [root |-> FALSE, n |-> n, d |-> d]
Root(n, d) == [root |-> TRUE, n |-> n, d |-> d]
IsNaN(x) == x.d = 0

\* Python's float ==  between a group mean and a plain number.
EqNum(x, k) == ~IsNaN(x) /\ x.n = k * x.d

(***************************************************************************)
(* Strings.                                                                *)
(***************************************************************************)
Contains(s, sub) ==
    \E i \in 1..(Len(s) - Len(sub) + 1) : SubSeq(s, i, i + Len(sub) - 1) = sub

StartsWith(s, pre) == Len(s) >= Len(pre) /\ SubSeq(s, 1, Len(pre)) = pre

RECURSIVE Repeat(_, _)
Repeat(s, k) == IF k <= 0 THEN "" ELSE s \o Repeat(s, k - 1)

RECURSIVE Join(_, _)
Join(sep, xs) ==
    IF Len(xs) = 0 THEN ""
    ELSE IF Len(xs) = 1 THEN xs[1]
    ELSE xs[1] \o sep \o Join(sep, Tail(xs))

RECURSIVE clean_text(_)
clean_text(s) ==
    IF s = "" THEN ""
    ELSE LET c == SubSeq(s, 1, 1)
         IN  (IF c = "%" THEN "\\%" ELSE IF c = "_" THEN " " ELSE c)
                 \o clean_text(SubSeq(s, 2, Len(s)))

(***************************************************************************)
(* "%.{n_decimals}f" % x                                                   *)
(***************************************************************************)
RECURSIVE Pow10(_)
Pow10(k) == IF k = 0 THEN 1 ELSE 10 * Pow10(k - 1)

RECURSIVE ZeroPad(_, _)
ZeroPad(s, w) == IF Len(s) >= w THEN s ELSE ZeroPad("0" \o s, w)

\* n / d rounded to the nearest integer, ties to even (n >= 0, d > 0).
RoundHalfEven(n, d) ==
    LET q == n \div d
        r == n % d
    IN  IF 2 * r > d THEN q + 1
        ELSE IF 2 * r = d THEN q + (q % 2)
        ELSE q

\* The integer part of sqrt(m), m >= 0.
RECURSIVE ISqrt(_)
ISqrt(m) ==
    IF m < 2 THEN m
    ELSE LET s == 2 * ISqrt(m \div 4)
         IN  IF (s + 1) * (s + 1) <= m THEN s + 1 ELSE s

\* sqrt(n / d) rounded to the nearest integer, ties to even (n >= 0, d > 0).
RoundRoot(n, d) ==
    LET t == ISqrt((4 * n) \div d)
        m == t \div 2
    IN  IF t % 2 = 0 THEN m
        ELSE IF t * t * d = 4 * n /\ m % 2 = 0 THEN m
        ELSE m + 1

FmtDigits(q, nd) ==
    IF nd = 0 THEN ToString(q)
    ELSE ToString(q \div Pow10(nd)) \o "." \o ZeroPad(ToString(q % Pow10(nd)), nd)

FmtFloat(x, nd) ==
    IF IsNaN(x) THEN "nan"
    ELSE IF x.root THEN FmtDigits(RoundRoot(x.n * Pow10(nd) * Pow10(nd), x.d), nd)
    ELSE FmtDigits(RoundHalfEven(x.n * Pow10(nd), x.d), nd)

(***************************************************************************)
(* Lines 95-104: the value column is scaled in the caller's dataframe,     *)
(* then the markers are replaced in a copy.                                *)
(***************************************************************************)
\* value_scaling is [float, v]: the Python int v or the Python float v.
\* x * value_scaling for one element of the value column: a str times an int
\* repeats the str.
ScaleCell(c, k) ==
    IF c.t = "num" THEN Num(c.v * k.v)
    ELSE IF c.t = "str" THEN Str(Repeat(c.s, k.v))
    ELSE c

\* A str times a float raises TypeError, and nothing is assigned.
ScaleRaises(d, k) == k.float /\ \E i \in 1..Len(d) : d[i].val.t = "str"

\* df[cell_key] = df[cell_key] * value_scaling
ScaleColumn(d, k) == [i \in 1..Len(d) |-> [d[i] EXCEPT !.val = ScaleCell(@, k)]]

ReplaceCell(c, marker, fill) ==
    IF c.t = "str" /\ c.s = marker THEN Num(fill) ELSE c

\* df.replace(marker, fill); the key columns of the model hold no marker.
Replace(d, marker, fill) ==
    [i \in 1..Len(d) |-> [d[i] EXCEPT !.val = ReplaceCell(@, marker, fill),
                                      !.err = ReplaceCell(@, marker, fill)]]

(***************************************************************************)
(* Lines 106-122: group by row key, then by column key; mean and           *)
(* dispersion of every group.                                              *)
(***************************************************************************)
RowKeys(d) == {d[i].row : i \in 1..Len(d)}
ColKeys(d, r) == {d[i].col : i \in {j \in 1..Len(d) : d[j].row = r}}

RECURSIVE Cells(_, _, _, _)
\* The fields `field` of the records of group (r, c), in dataframe order.
Cells(d, r, c, field) ==
    IF Len(d) = 0 THEN <<>>
    ELSE LET rest == Cells(Tail(d), r, c, field)
             rec == Head(d)
         IN  IF rec.row = r /\ rec.col = c
             THEN <<IF field = "val" THEN rec.val ELSE rec.err>> \o rest
             ELSE rest

RECURSIVE Count(_)
Count(cs) ==
    IF Len(cs) = 0 THEN 0
    ELSE (IF Head(cs).t = "num" THEN 1 ELSE 0) + Count(Tail(cs))

RECURSIVE Sum(_)
Sum(cs) ==
    IF Len(cs) = 0 THEN 0
    ELSE (IF Head(cs).t = "num" THEN Head(cs).v ELSE 0) + Sum(Tail(cs))

RECURSIVE SumSq(_)
SumSq(cs) ==
    IF Len(cs) = 0 THEN 0
    ELSE (IF Head(cs).t = "num" THEN Head(cs).v * Head(cs).v ELSE 0)
             + SumSq(Tail(cs))

\* SeriesGroupBy.mean(): NaN is skipped, a group without a number is NaN.
Mean(cs) == Rat(Sum(cs), Count(cs))

\* SeriesGroupBy.std(): the sample standard deviation, NaN below two numbers.
Std(cs) ==
    LET n == Count(cs)
    IN  IF n < 2 THEN Root(0, 0)
        ELSE Root(n * SumSq(cs) - Sum(cs) * Sum(cs), n * (n - 1))

\* x * error_scaling
ScaleDisp(x, k) == IF x.root THEN Root(x.n * k * k, x.d) ELSE Rat(x.n * k, x.d)

\* compute_err_fn(grouped[cell_key]) for one group: the strategy "count"
\* is lambda g: g.count().
ComputeErr(fn, cs) == Rat(Count(cs), 1)

\* The mean of a column over strings raises TypeError.
AggregateRaises(d, c) ==
    \E i \in 1..Len(d) :
        \/ d[i].val.t = "str"
        \/ c.err_key # None /\ d[i].err.t = "str"

\* SelectErr letting compute_err_fn override a selected error column.
SelectErr_FnFirst(df_std_y, err, fn_err, c) ==
    IF c.compute_err_fn # None THEN fn_err
    ELSE IF c.err_key # None /\ \A k \in DOMAIN err : ~IsNaN(err[k]) THEN err
    ELSE df_std_y

\* Lines 112-120: which dispersion a row group shows.
SelectErr(df_std_y, err, fn_err, c) ==
    LET sel_err == c.err_key # None /\ \A k \in DOMAIN err : ~IsNaN(err[k])
    IN  IF sel_err THEN err
        ELSE IF c.compute_err_fn # None THEN fn_err
        ELSE df_std_y

RowAggregate(d, r, c) ==
    LET cols == ColKeys(d, r)
        df_avg_y == [k \in cols |-> Mean(Cells(d, r, k, "val"))]
        df_std_y == [k \in cols |->
                        ScaleDisp(Std(Cells(d, r, k, "val")), c.error_scaling)]
        err == [k \in cols |-> Mean(Cells(d, r, k, "err"))]
        fn_err == [k \in cols |->
                      ComputeErr(c.compute_err_fn, Cells(d, r, k, "val"))]
    IN  [avg |-> df_avg_y, std |-> SelectErr(df_std_y, err, fn_err, c)]

Aggregate(d, c) == [r \in RowKeys(d) |-> RowAggregate(d, r, c)]

(***************************************************************************)
(* Lines 124-216: the header line and the body lines.                      *)
(***************************************************************************)
col_sep == " & "
row_sep == " \\\\\n"

\* dict.get(k, default)
Get(dict, k, default) == IF k \in DOMAIN dict THEN dict[k] ELSE default

\* a <= b for two numbers that are not NaN
Leq(a, b) == a.n * b.d <= b.n * a.d

\* get_row_highlights(row_k, row_y): the strategy "max" selects the columns
\* of the largest mean of the row, "min" those of the smallest.
RowHighlights(fn, row_k, row_y) ==
    IF fn = "max"
    THEN {k \in DOMAIN row_y : \A j \in DOMAIN row_y : Leq(row_y[j], row_y[k])}
    ELSE {k \in DOMAIN row_y : \A j \in DOMAIN row_y : Leq(row_y[k], row_y[j])}

\* get_col_highlights(col_k, col_values): the strategy "max" selects the rows
\* of the largest mean of the column, "min" those of the smallest.
ColHighlights(fn, col_k, col_values) ==
    IF fn = "max"
    THEN {r \in DOMAIN col_values :
             \A j \in DOMAIN col_values : Leq(col_values[j], col_values[r])}
    ELSE {r \in DOMAIN col_values :
             \A j \in DOMAIN col_values : Leq(col_values[r], col_values[j])}

\* Lines 164-173: per column of col_order, its means over the row groups
\* that have the column.
AllColValues(rws, c) ==
    [col \in {c.col_order[i] : i \in 1..Len(c.col_order)} |->
        [r \in {q \in DOMAIN rws : col \in DOMAIN rws[q].avg} |-> rws[r].avg[col]]]

\* SelCols consulting get_col_highlights before get_row_highlights.
SelCols_ColFirst(row_k, rws, c) ==
    IF c.get_col_highlights # None
    THEN [none |-> FALSE,
          cols |-> {k \in DOMAIN AllColValues(rws, c) :
                     row_k \in ColHighlights(c.get_col_highlights, k,
                                             AllColValues(rws, c)[k])}]
    ELSE IF c.get_row_highlights # None
    THEN [none |-> FALSE,
          cols |-> RowHighlights(c.get_row_highlights, row_k, rws[row_k].avg)]
    ELSE [none |-> TRUE, cols |-> {}]

\* Lines 161-184: sel_cols is None, or the columns to bold in row row_k.
SelCols(row_k, rws, c) ==
    IF c.get_row_highlights # None
    THEN [none |-> FALSE,
          cols |-> RowHighlights(c.get_row_highlights, row_k, rws[row_k].avg)]
    ELSE IF c.get_col_highlights # None
    THEN LET all_col_values == AllColValues(rws, c)
         IN  [none |-> FALSE,
              cols |-> {k \in DOMAIN all_col_values :
                         row_k \in ColHighlights(c.get_col_highlights, k,
                                                 all_col_values[k])}]
    ELSE [none |-> TRUE, cols |-> {}]

\* custom_cell_format_fn(val, std, col_k, row_k, sel_cols): the strategy
\* "plain" shows the value with one decimal and stars a selected column.
CustomCell(fn, val, std, col_k, row_k, sel_cols) ==
    "\\num{" \o FmtFloat(val, 1) \o "}"
        \o (IF ~sel_cols.none /\ col_k \in sel_cols.cols THEN "*" ELSE "")

\* Lines 200-203: the dispersion part of a numeric cell.
ErrText(std, c) ==
    IF c.include_err /\ ~IsNaN(std)
    THEN "{\\scriptsize " \o "$ \\pm$ " \o FmtFloat(std, c.n_decimals) \o " " \o " }"
    ELSE ""

\* Lines 206-207
Bold(txt, col_k, sel_cols) ==
    IF ~sel_cols.none /\ col_k \in sel_cols.cols
    THEN "\\textbf{ " \o txt \o " }"
    ELSE txt

\* Lines 199-207: the default text of a numeric cell.
NumberCell(val, std, col_k, sel_cols, c) ==
    Bold(" " \o FmtFloat(val, c.n_decimals) \o " " \o ErrText(std, c),
         col_k, sel_cols)

\* CellText comparing the mean with the unscaled missing_fill_value.
CellText_UnscaledFill(col_k, row_k, row_y, row_std, sel_cols, c) ==
    IF col_k \in DOMAIN c.text_columns
    THEN Get(c.text_columns[col_k], row_k, "-")
    ELSE IF col_k \notin DOMAIN row_y THEN "-"
    ELSE IF EqNum(row_y[col_k], c.missing_fill_value) THEN "-"
    ELSE IF EqNum(row_y[col_k], c.error_fill_value) THEN "E"
    ELSE IF c.custom_cell_format_fn = None
    THEN NumberCell(row_y[col_k], row_std[col_k], col_k, sel_cols, c)
    ELSE CustomCell(c.custom_cell_format_fn, row_y[col_k], row_std[col_k],
                    col_k, row_k, sel_cols)

\* Lines 187-210: the text of cell (row_k, col_k).
CellText(col_k, row_k, row_y, row_std, sel_cols, c) ==
    IF col_k \in DOMAIN c.text_columns
    THEN Get(c.text_columns[col_k], row_k, "-")
    ELSE IF col_k \notin DOMAIN row_y THEN "-"
    ELSE LET val == row_y[col_k]
             std == row_std[col_k]
         IN  IF EqNum(val, c.missing_fill_value * c.value_scaling.v) THEN "-"
             ELSE IF EqNum(val, c.error_fill_value) THEN "E"
             ELSE IF c.custom_cell_format_fn = None
             THEN NumberCell(val, std, col_k, sel_cols, c)
             ELSE CustomCell(c.custom_cell_format_fn, val, std, col_k, row_k,
                             sel_cols)

\* Lines 148-152: the row label cell, when row labels are shown.
RowLabel(row_k, c) ==
    IF ~c.show_row_labels THEN <<>>
    ELSE IF c.name_bold_fn = None
    THEN <<"\\textbf{" \o clean_text(Get(c.renames, row_k, row_k)) \o "}">>
    ELSE <<"\\emph{" \o clean_text(Get(c.renames, row_k, row_k)) \o "}">>

\* Lines 133-138: the column title row.
HeaderLine(c) ==
    Join(col_sep,
         (IF c.show_row_labels THEN <<"">> ELSE <<>>)
             \o [i \in 1..Len(c.col_order) |->
                    "\\textbf{"
                        \o clean_text(Get(c.renames, c.col_order[i], c.col_order[i]))
                        \o "}"])

\* Lines 212-215: whether the row that has just been counted is coloured.
Coloured(row_index, c) == row_index % 2 = 0 /\ c.alternating_color_rows

\* Lines 154-158 and 212: the row count after the entry row_k, which is not
\* "hline": a key without a group leaves the loop before the count.
NextRowIndex(row_index, row_k, rws) ==
    IF row_k \notin DOMAIN rws THEN row_index ELSE row_index + 1

\* Lines 213-216: the line of a data row, counted as row number row_index.
DataLine(row_index, joined, c) ==
    IF Coloured(row_index, c) THEN "\\rowcolor{Gray} " \o joined ELSE joined

\* Lines 142-145: an "hline" entry.
BreakEntry ==
    [kind |-> "hline", cells |-> <<>>, line |-> "\\hline", printed |-> <<>>]

\* Lines 154-158: the entry of a key without a group.
BlankEntry(row_k, row_str) ==
    [kind |-> "blank", cells |-> row_str, line |-> Join(col_sep, row_str),
     printed |-> <<"Could not find  " \o row_k>>]

\* Lines 159-216: the entry of a key with a group.
DataEntry(row_index, row_str, c) ==
    [kind |-> "data", cells |-> row_str,
     line |-> DataLine(row_index, Join(col_sep, row_str), c), printed |-> <<>>]

\* Lines 186-210: the cells of row row_k.
RowCells(row_k, rws, sel_cols, c) ==
    [j \in 1..Len(c.col_order) |->
        CellText(c.col_order[j], row_k, rws[row_k].avg, rws[row_k].std,
                 sel_cols, c)]

\* BlankCells giving a key without a group no cell at all.
BlankCells_NoCells(c) == <<>>

\* Lines 154-156: the cells of a key without a group.
BlankCells(c) == [j \in 1..Len(c.col_order) |-> ""]

RECURSIVE Body(_, _, _, _)
\* Lines 140-216 from entry i of row_order on: per entry its kind, its
\* row_str, the line appended to all_s and what it printed.
Body(i, row_index, rws, c) ==
    IF i > Len(c.row_order) THEN <<>>
    ELSE IF c.row_order[i] = "hline" THEN <<BreakEntry>> \o Body(i + 1, 0, rws, c)
    ELSE <<IF c.row_order[i] \notin DOMAIN rws
           THEN BlankEntry(c.row_order[i],
                           RowLabel(c.row_order[i], c) \o BlankCells(c))
           ELSE DataEntry(NextRowIndex(row_index, c.row_order[i], rws),
                          RowLabel(c.row_order[i], c)
                              \o RowCells(c.row_order[i], rws,
                                          SelCols(c.row_order[i], rws, c), c),
                          c)>>
             \o Body(i + 1, NextRowIndex(row_index, c.row_order[i], rws), rws, c)

(***************************************************************************)
(* Lines 218-278: the block.                                               *)
(***************************************************************************)
\* make_col_header(n_cols): by default "c" * n_cols; the strategy "bar" is
\* the docstring's "c|ccccc".
MakeColHeader(fn, n_cols) ==
    IF fn = None THEN Repeat("c", n_cols)
    ELSE "c|" \o Repeat("c", n_cols - 1)

\* Lines 218-220
NColumns(c) == Len(c.col_order) + (IF c.show_row_labels THEN 1 ELSE 0)

\* Lines 221-223
ColHeaderS(c) ==
    (IF c.y_label # "" THEN "c" ELSE "")
        \o MakeColHeader(c.make_col_header, NColumns(c))

\* Line 244: the top label row.
XLabelRow(c) ==
    "& \\multicolumn{" \o ToString(NColumns(c)) \o "}{c}{" \o c.x_label \o "}"
        \o row_sep

\* Lines 225, 236, 240-244
TopRule(c) ==
    (IF c.y_label # "" \/ c.skip_toprule THEN "" ELSE "\\toprule\n")
        \o (IF c.x_label # "" THEN XLabelRow(c) ELSE "")

\* Lines 227, 237
MidRule(c) ==
    IF c.y_label # ""
    THEN "\\cmidrule{2-" \o ToString(NColumns(c) + 1) \o "}\n"
    ELSE c.midrule_formatting

\* Lines 228, 238
BotRule(c) == IF c.y_label # "" THEN MidRule(c) ELSE c.botrule_formatting

StartOfLine(c) == IF c.y_label # "" THEN " & " ELSE ""

\* Lines 229-234; row_lines[0] of an empty list raises IndexError.
RowLines(lines, c) ==
    IF c.y_label = "" THEN lines
    ELSE [i \in 1..Len(lines) |->
             (IF i = 1
              THEN "\\multirow{4}{1em}{\\rotatebox{90}{" \o c.y_label \o "}}"
              ELSE "") \o " & " \o lines[i]]

\* Lines 260-268: what follows line i of n in all_row_s.
Separator(i, n, row_line, c) ==
    IF i = n /\ ~c.add_botrule THEN ""
    ELSE IF ~Contains(row_line, "hline") THEN row_sep
    ELSE "\n"

Separators(lines, c) ==
    [i \in 1..Len(lines) |-> Separator(i, Len(lines), lines[i], c)]

\* Lines 257-270
AllRowS(lines, sp) == Join("", [i \in 1..Len(lines) |-> lines[i] \o sp[i]])

\* Lines 246-278
Block(header, lines, sp, c) ==
    (IF c.add_tabular
     THEN "\\begin{tabular}{" \o ColHeaderS(c) \o "}\n" \o TopRule(c)
     ELSE "")
        \o (IF c.show_col_labels
            THEN StartOfLine(c) \o header \o row_sep \o MidRule(c)
            ELSE "")
        \o AllRowS(lines, sp)
        \o (IF c.add_tabular THEN BotRule(c) \o "\n\\end{tabular}\n" ELSE "")
        \o (IF c.add_botrule THEN BotRule(c) ELSE "")

(***************************************************************************)
(* One call of plot_table(df, **cfg).                                      *)
(***************************************************************************)
NoRows == [r \in {} |-> 0]

Raise(d, exc, printed) ==
    [df |-> d, rows |-> NoRows, all_s |-> <<>>, row_strs |-> <<>>,
     row_lines |-> <<>>, seps |-> <<>>, col_header_s |-> "", toprule |-> "",
     ret_s |-> "", raised |-> exc, stdout |-> printed, written |-> None]

RECURSIVE Printed(_)
Printed(body) == IF Len(body) = 0 THEN <<>> ELSE Head(body).printed \o Printed(Tail(body))

Lines(body) == [i \in 1..Len(body) |-> body[i].line]

\* Lines 280-287: the locals when the call returns.
Return(d1, rws, body, header, rl, sp, block, c) ==
    [df |-> d1, rows |-> rws, all_s |-> <<header>> \o Lines(body),
     row_strs |-> [i \in 1..Len(body) |->
                      [kind |-> body[i].kind, cells |-> body[i].cells]],
     row_lines |-> rl, seps |-> sp,
     col_header_s |-> ColHeaderS(c), toprule |-> TopRule(c),
     ret_s |-> block, raised |-> "",
     stdout |-> Printed(body)
         \o <<IF c.write_to = None THEN block
              ELSE "Wrote result to " \o c.write_to>>,
     written |-> IF c.write_to = None THEN None ELSE block]

Assemble(d1, rws, body, header, rl, sp, c) ==
    Return(d1, rws, body, header, rl, sp, Block(header, rl, sp, c), c)

Separate(d1, rws, body, rl, c) ==
    Assemble(d1, rws, body, HeaderLine(c), rl, Separators(rl, c), c)

Finish(d1, rws, body, c) ==
    IF c.y_label # "" /\ Len(body) = 0
    THEN Raise(d1, "IndexError", Printed(body))
    ELSE Separate(d1, rws, body, RowLines(Lines(body), c), c)

Render(d1, rws, c) == Finish(d1, rws, Body(1, 0, rws, c), c)

Sanitize(d1, c) ==
    Replace(Replace(d1, "missing", c.missing_fill_value),
            "error", c.error_fill_value)

Grouped(d1, d2, c) ==
    IF AggregateRaises(d2, c) THEN Raise(d1, "TypeError", <<>>)
    ELSE Render(d1, Aggregate(d2, c), c)

Scaled(d1, c) == Grouped(d1, Sanitize(d1, c), c)

plot_table(d, c) ==
    IF ScaleRaises(d, c.value_scaling) THEN Raise(d, "TypeError", <<>>)
    ELSE Scaled(ScaleColumn(d, c.value_scaling), c)

PlotTable ==
    /\ Len(history) < MaxCalls
    /\ loc' = plot_table(df, cfg)
    /\ df' = loc'.df
    /\ history' = Append(history, [df |-> df, raised |-> loc'.raised,
                                    ret_s |-> loc'.ret_s])
    /\ UNCHANGED cfg

Next == PlotTable

(***************************************************************************)
(* The keyword arguments and the dataframes.                               *)
(***************************************************************************)
NoRenames == [k \in {} |-> ""]

IntScale(v) == [float |-> FALSE, v |-> v]
FloatScale(v) == [float |-> TRUE, v |-> v]

\* Lines 19-49: the defaults (the fill values in the model's integer units).
Defaults ==
    [col_order |-> <<"x", "y">>, row_order |-> <<"a", "b">>,
     renames |-> NoRenames, error_scaling |-> 1, n_decimals |-> 2,
     missing_fill_value |-> 3, error_fill_value |-> 4,
     get_row_highlights |-> None, get_col_highlights |-> None,
     make_col_header |-> None, x_label |-> "", y_label |-> "",
     skip_toprule |-> FALSE, include_err |-> TRUE, write_to |-> None,
     err_key |-> None, add_tabular |-> TRUE, add_botrule |-> FALSE,
     name_bold_fn |-> None, show_row_labels |-> TRUE, show_col_labels |-> TRUE,
     compute_err_fn |-> None, value_scaling |-> FloatScale(1),
     midrule_formatting |-> "\\midrule\n", botrule_formatting |-> "\\bottomrule",
     text_columns |-> [k \in {} |-> NoRenames], alternating_color_rows |-> FALSE,
     custom_cell_format_fn |-> None]

\* The dataframes of 1..MaxRecs records drawn from the set R.
Frames(R) == UNION {[1..n -> R] : n \in 1..MaxRecs}

Start(d, c) ==
    /\ df = d
    /\ cfg = c
    /\ loc = Raise(d, "", <<>>)
    /\ history = <<>>

\* Repeated calls on one dataframe, with and without markers.
IdemRecs ==
    [row : {"a"}, col : {"x", "y"}, val : {Num(1), Num(2), Str("missing")},
     err : {NaN}]

InitIdem ==
    \E d \in Frames(IdemRecs) :
        \E k \in {IntScale(1), FloatScale(1), IntScale(2), FloatScale(2)} :
            Start(d, [Defaults EXCEPT !.value_scaling = k, !.row_order = <<"a">>])

SpecIdem == InitIdem /\ [][Next]_vars

\* Markers and numbers in the value column, under several scalings and
\* fill values.
SentinelRecs ==
    [row : {"a"}, col : {"x", "y"},
     val : {Num(1), Num(2), Str("missing"), Str("error")}, err : {NaN}]

InitSentinel ==
    \E d \in Frames(SentinelRecs) :
        \E k \in {IntScale(1), FloatScale(1), IntScale(2), FloatScale(2)} :
            \E m \in {1, 3} : \E e \in {2, 3} : \E f \in {None, "plain"} :
                Start(d, [Defaults EXCEPT !.value_scaling = k,
                                          !.missing_fill_value = m,
                                          !.error_fill_value = e,
                                          !.custom_cell_format_fn = f,
                                          !.row_order = <<"a">>])

SpecSentinel == InitSentinel /\ [][Next]_vars

Rec(r, c, v) == [row |-> r, col |-> c, val |-> Num(v), err |-> NaN]

\* The records of S in every order, and those of every part of S.
Orderings(S) ==
    UNION {{f \in [1..n -> S] : \A i, j \in 1..n : f[i] = f[j] => i = j} :
              n \in 1..Cardinality(S)}

\* The row_order lists of at most MaxRows entries drawn from E.
RowOrders(E) == UNION {[1..n -> E] : n \in 0..MaxRows}

\* Row orders with section breaks, keys without a group ("b") and groups
\* that are not listed; the dataframe in every order of its records.
RowsRecs == {Rec("a", "x", 1), Rec("a", "x", 2), Rec("no_hline", "y", 2)}

InitRows ==
    \E d \in Orderings(RowsRecs) :
        \E ro \in RowOrders({"a", "b", "hline", "no_hline"}) :
            \E alt, lab \in BOOLEAN : \E y \in {"", "Y"} :
                Start(d, [Defaults EXCEPT !.row_order = ro,
                                          !.alternating_color_rows = alt,
                                          !.show_row_labels = lab,
                                          !.y_label = y])

SpecRows == InitRows /\ [][Next]_vars

\* The wrapper options, the labels and the column-spec string.
InitBlock ==
    \E d \in {<<Rec("a", "x", 1)>>, <<Rec("no_hline", "x", 2), Rec("a", "y", 1)>>} :
        \E ro \in RowOrders({"a", "hline", "no_hline"}) :
            \E tab, bot, lab \in BOOLEAN : \E x \in {"", "X"} : \E y \in {"", "Y"} :
                \E h \in {None, "bar"} : \E co \in {<<"x">>, <<"x", "y">>} :
                    Start(d, [Defaults EXCEPT !.row_order = ro,
                                              !.col_order = co,
                                              !.add_tabular = tab,
                                              !.add_botrule = bot,
                                              !.show_row_labels = lab,
                                              !.x_label = x,
                                              !.y_label = y,
                                              !.make_col_header = h])

SpecBlock == InitBlock /\ [][Next]_vars

\* An error column with and without NaN, a custom error function and the
\* standard deviation; the records in one fixed order.
ErrRecs ==
    [row : {"a", "b"}, col : {"x", "y"}, val : {Num(1), Num(2)},
     err : {NaN, Num(5)}]

Rank(rec) ==
    (IF rec.row = "a" THEN 0 ELSE 8) + (IF rec.col = "x" THEN 0 ELSE 4)
        + (IF rec.val.v = 1 THEN 0 ELSE 2) + (IF rec.err.t = "nan" THEN 0 ELSE 1)

Sorted(d) == \A i \in 1..(Len(d) - 1) : Rank(d[i]) <= Rank(d[i + 1])

InitErr ==
    \E d \in Frames(ErrRecs) :
        /\ Sorted(d)
        /\ \E ek \in {None, "err"} : \E fn \in {None, "count"} :
               \E es \in {1, 2} :
                   Start(d, [Defaults EXCEPT !.err_key = ek,
                                             !.compute_err_fn = fn,
                                             !.error_scaling = es])

SpecErr == InitErr /\ [][Next]_vars

\* Row-wise and column-wise highlight selectors, with placeholder cells,
\* text-override cells and blank rows.
HighlightRecs == [row : {"a", "b"}, col : {"x", "y"}, val : {Num(1), Num(2)}, err : {NaN}]

InitHighlight ==
    \E d \in Frames(HighlightRecs) :
        \E rh \in {None, "max"} : \E ch \in {None, "max"} :
            \E f \in {None, "plain"} : \E m \in {1, 3} :
                \E tc \in {[k \in {} |-> NoRenames],
                           [k \in {"y"} |-> [r \in {"a"} |-> "n/a"]]} :
                    Start(d, [Defaults EXCEPT !.get_row_highlights = rh,
                                              !.get_col_highlights = ch,
                                              !.custom_cell_format_fn = f,
                                              !.missing_fill_value = m,
                                              !.text_columns = tc])

SpecHighlight == InitHighlight /\ [][Next]_vars

(***************************************************************************)
(* Reading a call's outcome.                                               *)
(***************************************************************************)
Called == Len(history) >= 1
\* The dataframe the last call was given, as it was when the call began.
Given == history[Len(history)].df
Returned == Called /\ loc.raised = ""
\* The text of the cell of entry i of row_order and entry j of col_order.
CellAt(i, j) == loc.row_strs[i].cells[j + (IF cfg.show_row_labels THEN 1 ELSE 0)]
Entries == 1..Len(cfg.row_order)
Columns == 1..Len(cfg.col_order)
\* Every record of group (r, c) of d carries the marker m in its value field.
AllMarker(d, r, c, m) ==
    /\ Cells(d, r, c, "val") # <<>>
    /\ \A i \in 1..Len(Cells(d, r, c, "val")) : Cells(d, r, c, "val")[i] = Str(m)
\* Every record of group (r, c) of d carries a number in its value field.
AllGenuine(d, r, c) ==
    /\ Cells(d, r, c, "val") # <<>>
    /\ \A i \in 1..Len(Cells(d, r, c, "val")) : Cells(d, r, c, "val")[i].t = "num"

(***************************************************************************)
(* C1: two calls in succession with the same dataframe object and the      *)
(* same configuration return the same string (or end the same way).        *)
(***************************************************************************)
C1_SecondCallSameResult ==
    Len(history) >= 2 =>
        /\ history[2].raised = history[1].raised
        /\ history[2].ret_s = history[1].ret_s

(***************************************************************************)
(* C2: a group whose value field is "missing" in every record renders as   *)
(* "-", one whose value field is "error" in every record renders as "E".   *)
(***************************************************************************)
C2_MarkersRenderAsPlaceholders ==
    Called =>
        \A i \in Entries : \A j \in Columns :
            /\ AllMarker(Given, cfg.row_order[i], cfg.col_order[j], "missing")
                   => Returned /\ CellAt(i, j) = "-"
            /\ AllMarker(Given, cfg.row_order[i], cfg.col_order[j], "error")
                   => Returned /\ CellAt(i, j) = "E"

(***************************************************************************)
(* C10, as stated: a cell whose group holds only numbers is never shown    *)
(* as "-" or "E".                                                          *)
(***************************************************************************)
C10_GenuineNeverPlaceholder ==
    Returned =>
        \A i \in Entries : \A j \in Columns :
            AllGenuine(Given, cfg.row_order[i], cfg.col_order[j])
                => CellAt(i, j) \notin {"-", "E"}

\* The mean of the scaled value fields of group (r, c) of d.
ScaledMean(d, r, c) ==
    Rat(cfg.value_scaling.v * Sum(Cells(d, r, c, "val")),
        Len(Cells(d, r, c, "val")))

\* txt shows the number m, by the default format or the custom one.
ShowsNumber(txt, m) ==
    IF cfg.custom_cell_format_fn = None
    THEN StartsWith(txt, " " \o FmtFloat(m, cfg.n_decimals) \o " ")
    ELSE StartsWith(txt, "\\num{" \o FmtFloat(m, 1) \o "}")

(***************************************************************************)
(* C10, amended: a cell whose group holds only numbers is shown as "-"     *)
(* exactly when its mean equals missing_fill_value * value_scaling, as     *)
(* "E" exactly when its mean equals error_fill_value and not               *)
(* missing_fill_value * value_scaling, and as its number otherwise.        *)
(***************************************************************************)
C10_PlaceholderOnlyOnCollision ==
    Returned =>
        \A i \in Entries : \A j \in Columns :
            AllGenuine(Given, cfg.row_order[i], cfg.col_order[j]) =>
                LET m == ScaledMean(Given, cfg.row_order[i], cfg.col_order[j])
                    miss == EqNum(m, cfg.missing_fill_value * cfg.value_scaling.v)
                    fail == EqNum(m, cfg.error_fill_value)
                IN  /\ CellAt(i, j) = "-" <=> miss
                    /\ CellAt(i, j) = "E" <=> ~miss /\ fail
                    /\ ~miss /\ ~fail => ShowsNumber(CellAt(i, j), m)

\* A render with value_scaling 2 showing one group of numbers as "-" and
\* another as its number.
C10_Witness ==
    /\ Returned
    /\ cfg.value_scaling.v = 2
    /\ AllGenuine(Given, "a", "x") /\ CellAt(1, 1) = "-"
    /\ AllGenuine(Given, "a", "y") /\ ShowsNumber(CellAt(1, 2), ScaledMean(Given, "a", "y"))

(***************************************************************************)
(* Reading the body lines.                                                 *)
(***************************************************************************)
IsBreak(i) == cfg.row_order[i] = "hline"
\* The body line of entry i of row_order, as appended to all_s.
BodyLine(i) == loc.all_s[i + 1]
IsColoured(line) == StartsWith(line, "\\rowcolor{Gray} ")
\* The last "hline" entry before entry i, 0 if there is none.
LastBreak(i) ==
    IF \E j \in 1..(i - 1) : IsBreak(j)
    THEN CHOOSE j \in 1..(i - 1) : IsBreak(j) /\ \A k \in (j + 1)..(i - 1) : ~IsBreak(k)
    ELSE 0
\* The number of entry i among the data rows of its section.
SectionPos(i) == i - LastBreak(i)

(***************************************************************************)
(* C3: with alternating_color_rows, exactly the 2nd, 4th, ... entries of   *)
(* each section of row_order are coloured, every entry that is not "hline" *)
(* counting as one row; a section-break line is never coloured.            *)
(***************************************************************************)
C3_EverySecondEntryColoured ==
    Returned =>
        \A i \in Entries :
            IsColoured(BodyLine(i)) <=>
                /\ ~IsBreak(i)
                /\ cfg.alternating_color_rows
                /\ SectionPos(i) % 2 = 0

EndsWith(s, suf) ==
    Len(s) >= Len(suf) /\ SubSeq(s, Len(s) - Len(suf) + 1, Len(s)) = suf

\* d with its records k and k + 1 exchanged.
Swap(d, k) == [d EXCEPT ![k] = d[k + 1], ![k + 1] = d[k]]

\* The row_str of entry i is the label cell, when labels are shown, and
\* one cell per entry of col_order; the body line joins it.
WellFormedRow(i) ==
    /\ Len(loc.row_strs[i].cells)
           = Len(cfg.col_order) + (IF cfg.show_row_labels THEN 1 ELSE 0)
    /\ cfg.show_row_labels
           => loc.row_strs[i].cells[1]
                  = "\\textbf{" \o clean_text(cfg.row_order[i]) \o "}"
    /\ BodyLine(i) \in {Join(col_sep, loc.row_strs[i].cells),
                        "\\rowcolor{Gray} " \o Join(col_sep, loc.row_strs[i].cells)}

\* The cells of entry i show the groups of its key in the order of col_order.
CellsFollowColOrder(i) ==
    \A j \in Columns :
        IF Cells(Given, cfg.row_order[i], cfg.col_order[j], "val") = <<>>
        THEN CellAt(i, j) = "-"
        ELSE ShowsNumber(CellAt(i, j),
                         ScaledMean(Given, cfg.row_order[i], cfg.col_order[j]))

(***************************************************************************)
(* C5: a call with a non-empty row_order returns; the body lines are the   *)
(* entries of row_order in order: "\hline" for "hline", the label and one  *)
(* blank cell per column for a key without a group, the cells of the key   *)
(* in the order of col_order otherwise; row_lines and the block hold these *)
(* lines in order; and the block does not depend on the order of the       *)
(* records of the dataframe.                                               *)
(***************************************************************************)
C5_BodyFollowsRowOrder ==
    Called =>
        /\ cfg.row_order # <<>> => Returned
        /\ Returned =>
            /\ Len(loc.all_s) = Len(cfg.row_order) + 1
            /\ Len(loc.row_lines) = Len(cfg.row_order)
            /\ \A i \in Entries :
                /\ EndsWith(loc.row_lines[i], BodyLine(i))
                /\ IF IsBreak(i) THEN BodyLine(i) = "\\hline"
                   ELSE /\ WellFormedRow(i)
                        /\ IF cfg.row_order[i] \notin RowKeys(Given)
                           THEN \A j \in Columns : CellAt(i, j) = ""
                           ELSE CellsFollowColOrder(i)
            /\ Contains(loc.ret_s, AllRowS(loc.row_lines, loc.seps))
            /\ \A k \in 1..(Len(Given) - 1) :
                   plot_table(Swap(Given, k), cfg).ret_s = loc.ret_s

\* A render of a section break, a key without a group and a key with one,
\* from a dataframe that also holds a group that is not listed.
C5_Witness ==
    /\ Returned
    /\ cfg.row_order = <<"b", "hline", "a">>
    /\ RowKeys(Given) = {"a", "no_hline"}
    /\ Len(Given) = 3
    /\ loc.row_strs[1].kind = "blank"
    /\ loc.row_strs[3].kind = "data"

(***************************************************************************)
(* C6: in the block, a body line that is not the last one is followed by   *)
(* a plain newline if and only if it is the line of an "hline" entry, and  *)
(* by the row delimiter otherwise.                                         *)
(***************************************************************************)
C6_NewlineOnlyAfterBreak ==
    Returned =>
        \A i \in 1..(Len(loc.row_lines) - 1) :
            /\ Contains(loc.ret_s,
                        loc.row_lines[i] \o loc.seps[i] \o loc.row_lines[i + 1])
            /\ loc.seps[i] = (IF IsBreak(i) THEN "\n" ELSE row_sep)

\* The number of columns a column-spec string declares.
DeclaredColumns(spec) ==
    Cardinality({i \in 1..Len(spec) : SubSeq(spec, i, i) \in {"c", "l", "r"}})

(***************************************************************************)
(* C8: with x_label and the tabular wrapper, the top label row (an empty   *)
(* cell and a \multicolumn) spans as many columns as the column-spec       *)
(* string declares.                                                        *)
(***************************************************************************)
C8_LabelRowSpansTable ==
    Returned /\ cfg.x_label # "" /\ cfg.add_tabular =>
        /\ Contains(loc.ret_s, "\\begin{tabular}{" \o loc.col_header_s \o "}\n")
        /\ Contains(loc.ret_s,
                    "& \\multicolumn{"
                        \o ToString(DeclaredColumns(loc.col_header_s) - 1)
                        \o "}{c}{" \o cfg.x_label \o "}")

\* How many times sub occurs in s.
Occurrences(s, sub) ==
    Cardinality({i \in 1..(Len(s) - Len(sub) + 1) :
                    SubSeq(s, i, i + Len(sub) - 1) = sub})

(***************************************************************************)
(* C9: the last body line has no trailing separator only when nothing      *)
(* follows the rows (neither add_tabular nor add_botrule), and the bottom  *)
(* rule occurs at most once in the block.                                  *)
(***************************************************************************)
C9_LastRowTerminated ==
    Returned /\ loc.row_lines # <<>> =>
        /\ loc.seps[Len(loc.seps)] = "" => ~cfg.add_tabular /\ ~cfg.add_botrule
        /\ cfg.y_label = "" => Occurrences(loc.ret_s, cfg.botrule_formatting) <= 1

\* Row group r of d takes the error column: err_key is given and every
\* column group of r has a number in it.
ErrColumnSelected(d, r) ==
    /\ cfg.err_key # None
    /\ \A c \in ColKeys(d, r) :
           \E i \in 1..Len(Cells(d, r, c, "err")) : Cells(d, r, c, "err")[i].t = "num"

\* The dispersion of group (r, c) of d by the precedence error column,
\* compute_err_fn, standard deviation times error_scaling.
DispersionByPrecedence(d, r, c) ==
    IF ErrColumnSelected(d, r) THEN Mean(Cells(d, r, c, "err"))
    ELSE IF cfg.compute_err_fn # None THEN Rat(Len(Cells(d, r, c, "val")), 1)
    ELSE ScaleDisp(Std(Cells(d, r, c, "val")), cfg.error_scaling)

\* txt shows the dispersion x, or none when x is NaN.
ShowsDispersion(txt, x) ==
    IF IsNaN(x) THEN ~Contains(txt, "\\pm")
    ELSE Contains(txt, "{\\scriptsize $ \\pm$ " \o FmtFloat(x, cfg.n_decimals) \o "  }")

RowMeans(d, r) == [c \in ColKeys(d, r) |-> ScaledMean(d, r, c)]
\* The means of column c of d, per row group that has the column.
ColMeans(d, c) ==
    [r \in {q \in RowKeys(d) : c \in ColKeys(d, q)} |-> ScaledMean(d, r, c)]

\* Cell (r, c) is picked by the one selector that decides.
Selected(d, r, c) ==
    IF cfg.get_row_highlights # None
    THEN c \in RowHighlights(cfg.get_row_highlights, r, RowMeans(d, r))
    ELSE IF cfg.get_col_highlights # None
    THEN r \in ColHighlights(cfg.get_col_highlights, c, ColMeans(d, c))
    ELSE FALSE

\* Cell (r, c) goes through the number formatting of lines 199-209.
Numeric(d, r, c) ==
    /\ c \notin DOMAIN cfg.text_columns
    /\ Cells(d, r, c, "val") # <<>>
    /\ ~EqNum(ScaledMean(d, r, c), cfg.missing_fill_value * cfg.value_scaling.v)
    /\ ~EqNum(ScaledMean(d, r, c), cfg.error_fill_value)

IsBold(txt) == StartsWith(txt, "\\textbf{ ")

(***************************************************************************)
(* C7: a cell is bolded exactly when it is formatted as a number by the    *)
(* default format and picked by get_row_highlights when that is supplied,  *)
(* else by get_col_highlights when that is supplied; a custom format       *)
(* function receives the same selection; "-", "E", text-override and       *)
(* blank cells are never bolded.                                           *)
(***************************************************************************)
C7_OneSelectorDecides ==
    Returned =>
        \A i \in Entries : \A j \in Columns :
            LET r == cfg.row_order[i]
                c == cfg.col_order[j]
            IN  /\ IsBold(CellAt(i, j)) <=>
                       /\ Numeric(Given, r, c)
                       /\ cfg.custom_cell_format_fn = None
                       /\ Selected(Given, r, c)
                /\ Numeric(Given, r, c) /\ cfg.custom_cell_format_fn # None
                       => (EndsWith(CellAt(i, j), "*") <=> Selected(Given, r, c))

\* Both selectors supplied: a cell is bolded that get_col_highlights would
\* not pick, and a cell it would pick is not bolded.
C7_Witness ==
    /\ Returned
    /\ cfg.get_row_highlights # None /\ cfg.get_col_highlights # None
    /\ \E i \in Entries : \E j \in Columns :
           /\ IsBold(CellAt(i, j))
           /\ cfg.row_order[i]
                  \notin ColHighlights(cfg.get_col_highlights, cfg.col_order[j],
                                       ColMeans(Given, cfg.col_order[j]))
    /\ \E i \in Entries : \E j \in Columns :
           /\ Numeric(Given, cfg.row_order[i], cfg.col_order[j])
           /\ ~IsBold(CellAt(i, j))
           /\ cfg.row_order[i]
                  \in ColHighlights(cfg.get_col_highlights, cfg.col_order[j],
                                    ColMeans(Given, cfg.col_order[j]))

====
